---- MODULE Spec2Model ----
(***************************************************************************)
(* A model of project.py: the asteroid-table pipeline (load, filter,       *)
(* prune, aggregate, report, render).  A DataFrame is a record             *)
(*     [kind |-> "DataFrame", cols |-> <column names>, rows |-> <rows>]    *)
(* whose rows are functions from column name to cell value; Python's None  *)
(* is the record NoneVal.  Strings that the code takes apart (the dates)   *)
(* are sequences of one-character strings.  Cells are the scalars of the   *)
(* data model: every cell is present, dates are strings, the numeric       *)
(* columns hold integers (a missing cell, NaN, is not modelled).           *)
(***************************************************************************)
EXTENDS Integers, Sequences, FiniteSets, TLC

(***************************************************************************)
(* Bounds of the input space.                                              *)
(***************************************************************************)
MaxDateRows == 3
MaxOrbitRows == 5
MaxDiaRows == 4
MaxHazRows == 4
MaxColRows == 2

(***************************************************************************)
(* Column names and literals of the program.                               *)
(***************************************************************************)
YearThreshold == 2000
OrbitTickLimit == 100
AuxColumns == <<"Orbiting Body", "Neo Reference ID", "Equinox">>
BaseColumns ==
    << "Name", "Close Approach Date", "Absolute Magnitude",
       "Miss Dist.(kilometers)", "Orbit ID",
       "Est Dia in KM(min)", "Est Dia in KM(max)",
       "Minimum Orbit Intersection", "Miles per hour", "Hazardous" >>
ProjectionColumns == BaseColumns \o AuxColumns

Range(s) == {s[i] : i \in 1..Len(s)}

NoneVal == [kind |-> "None"]
DataFrame(cols, rows) == [kind |-> "DataFrame", cols |-> cols, rows |-> rows]
IsFrame(v) == v.kind = "DataFrame"

(***************************************************************************)
(* Python built-ins used by extract_year.                                  *)
(***************************************************************************)
DigitChars == <<"0", "1", "2", "3", "4", "5", "6", "7", "8", "9">>
IsDigit(c) == c \in Range(DigitChars)
DigitVal(c) == CHOOSE d \in 0..9 : DigitChars[d + 1] = c

RECURSIVE DecimalValue(_)
DecimalValue(s) ==
    IF s = <<>> THEN 0
    ELSE 10 * DecimalValue(SubSeq(s, 1, Len(s) - 1)) + DigitVal(s[Len(s)])

\* str.split(sep) with an explicit separator: one part more than there are
\* separators, empty parts included ("".split('-') is ['']).
RECURSIVE split(_, _)
split(s, sep) ==
    IF \A i \in 1..Len(s) : s[i] # sep
    THEN <<s>>
    ELSE LET i == CHOOSE k \in 1..Len(s) :
                     s[k] = sep /\ \A j \in 1..(k - 1) : s[j] # sep
         IN  <<SubSeq(s, 1, i - 1)>> \o split(SubSeq(s, i + 1, Len(s)), sep)

\* int(str): an optional sign, then one or more decimal digits; anything
\* else is a ValueError (ok = FALSE).  The modelled strings hold no
\* whitespace and no underscore.
int(p) ==
    LET signed == p # <<>> /\ p[1] \in {"+", "-"}
        body == IF signed THEN Tail(p) ELSE p
        ok == body # <<>> /\ \A i \in 1..Len(body) : IsDigit(body[i])
    IN  IF ok
        THEN [ok |-> TRUE,
              val |-> IF signed /\ p[1] = "-" THEN 0 - DecimalValue(body)
                      ELSE DecimalValue(body)]
        ELSE [ok |-> FALSE, val |-> 0]

\* The optional integer extract_year returns.
NoYear == [isNone |-> TRUE, val |-> 0]
Year(n) == [isNone |-> FALSE, val |-> n]

extract_year(date_str) ==
    LET parts == split(date_str, "-")
    IN  IF Len(parts) = 3
        THEN IF int(parts[1]).ok THEN Year(int(parts[1]).val) ELSE NoYear
        ELSE NoYear

(***************************************************************************)
(* Stage 2: mask_data.  Line 68 assigns the column 'year' on the object it *)
(* was handed (a new last column, or the old 'year' overwritten in place); *)
(* line 69 builds a new frame from the rows whose year compares >= 2000    *)
(* (a comparison with None is False) and drops 'year' from it.  The result *)
(* is [exc, arg, ret]: the exception raised ("none" if none), the argument *)
(* object as the call leaves it, and the returned value.                   *)
(***************************************************************************)
Restrict(row, S) == [c \in (DOMAIN row) \cap S |-> row[c]]
WithCell(row, c, v) == [k \in (DOMAIN row) \cup {c} |-> IF k = c THEN v ELSE row[k]]
MapSeq(s, F(_)) == [i \in 1..Len(s) |-> F(s[i])]
SelectCols(cols, S) == SelectSeq(cols, LAMBDA c : c \in S)
DropColumns(df, S) ==
    DataFrame(SelectCols(df.cols, Range(df.cols) \ S),
              MapSeq(df.rows, LAMBDA r : Restrict(r, Range(df.cols) \ S)))

AssignYear(df) ==
    DataFrame(IF "year" \in Range(df.cols) THEN df.cols ELSE Append(df.cols, "year"),
              MapSeq(df.rows,
                     LAMBDA r : WithCell(r, "year", extract_year(r["Close Approach Date"]))))

YearAtLeast(row, n) == ~row["year"].isNone /\ row["year"].val >= n
YearAbove(row, n) == ~row["year"].isNone /\ row["year"].val > n

\* mask_data comparing with > in place of >=.
mask_data_strict(df) ==
    IF ~IsFrame(df) THEN [exc |-> "TypeError", arg |-> df, ret |-> NoneVal]
    ELSE IF "Close Approach Date" \notin Range(df.cols)
    THEN [exc |-> "KeyError", arg |-> df, ret |-> NoneVal]
    ELSE LET withYear == AssignYear(df)
             kept == DataFrame(withYear.cols,
                               SelectSeq(withYear.rows,
                                         LAMBDA r : YearAbove(r, YearThreshold)))
         IN  [exc |-> "none", arg |-> withYear, ret |-> DropColumns(kept, {"year"})]

\* mask_data slicing one row short of the selection.
mask_data_drop_last(df) ==
    IF ~IsFrame(df) THEN [exc |-> "TypeError", arg |-> df, ret |-> NoneVal]
    ELSE IF "Close Approach Date" \notin Range(df.cols)
    THEN [exc |-> "KeyError", arg |-> df, ret |-> NoneVal]
    ELSE LET withYear == AssignYear(df)
             sel == SelectSeq(withYear.rows, LAMBDA r : YearAtLeast(r, YearThreshold))
             kept == DataFrame(withYear.cols,
                               IF sel = <<>> THEN sel ELSE SubSeq(sel, 1, Len(sel) - 1))
         IN  [exc |-> "none", arg |-> withYear, ret |-> DropColumns(kept, {"year"})]

mask_data(df) ==
    IF ~IsFrame(df) THEN [exc |-> "TypeError", arg |-> df, ret |-> NoneVal]
    ELSE IF "Close Approach Date" \notin Range(df.cols)
    THEN [exc |-> "KeyError", arg |-> df, ret |-> NoneVal]
    ELSE LET withYear == AssignYear(df)
             kept == DataFrame(withYear.cols,
                               SelectSeq(withYear.rows,
                                         LAMBDA r : YearAtLeast(r, YearThreshold)))
         IN  [exc |-> "none", arg |-> withYear, ret |-> DropColumns(kept, {"year"})]

(***************************************************************************)
(* Stage 3: data_details.  drop(columns=[...], inplace=True,               *)
(* errors='ignore') removes, from the object it was handed, those of the   *)
(* three listed columns that are present; the function returns the tuple   *)
(* (num_rows, num_cols, titles).                                           *)
(***************************************************************************)
\* data_details without errors='ignore'.
data_details_raise_on_missing(df) ==
    IF ~IsFrame(df) THEN [exc |-> "AttributeError", arg |-> df, ret |-> <<>>]
    ELSE IF ~(Range(AuxColumns) \subseteq Range(df.cols))
    THEN [exc |-> "KeyError", arg |-> df, ret |-> <<>>]
    ELSE LET dropped == DropColumns(df, Range(AuxColumns))
         IN  [exc |-> "none", arg |-> dropped,
              ret |-> <<Len(dropped.rows), Len(dropped.cols), dropped.cols>>]

data_details(df) ==
    IF ~IsFrame(df) THEN [exc |-> "AttributeError", arg |-> df, ret |-> <<>>]
    ELSE LET dropped == DropColumns(df, Range(AuxColumns))
         IN  [exc |-> "none", arg |-> dropped,
              ret |-> <<Len(dropped.rows), Len(dropped.cols), dropped.cols>>]

(***************************************************************************)
(* Stage 13, lines 375-381: df[[...]] selects the thirteen listed columns  *)
(* in the listed order into a new frame; a listed column that the frame    *)
(* lacks is a KeyError.                                                    *)
(***************************************************************************)
SelectRelevantColumns(df) ==
    IF ~IsFrame(df) THEN [exc |-> "TypeError", ret |-> NoneVal]
    ELSE IF ~(Range(ProjectionColumns) \subseteq Range(df.cols))
    THEN [exc |-> "KeyError", ret |-> NoneVal]
    ELSE [exc |-> "none",
          ret |-> DataFrame(ProjectionColumns,
                            MapSeq(df.rows,
                                   LAMBDA r : Restrict(r, Range(ProjectionColumns))))]

(***************************************************************************)
(* Stages 4-7: the aggregators.                                            *)
(***************************************************************************)
Column(df, c) == MapSeq(df.rows, LAMBDA r : r[c])

\* Series.idxmax / idxmin: the first position holding the extreme value.
idxmax(s) ==
    CHOOSE i \in 1..Len(s) :
        /\ \A j \in 1..Len(s) : s[j] <= s[i]
        /\ \A j \in 1..(i - 1) : s[j] < s[i]
idxmin(s) ==
    CHOOSE i \in 1..Len(s) :
        /\ \A j \in 1..Len(s) : s[j] >= s[i]
        /\ \A j \in 1..(i - 1) : s[j] > s[i]

max_absolute_magnitude(df) ==
    IF df.rows = <<>> THEN [exc |-> "ValueError", name |-> 0, val |-> 0]
    ELSE LET max_index == idxmax(Column(df, "Absolute Magnitude"))
         IN  [exc |-> "none", name |-> df.rows[max_index]["Name"],
              val |-> df.rows[max_index]["Absolute Magnitude"]]

closest_to_earth(df) ==
    IF df.rows = <<>> THEN [exc |-> "ValueError", name |-> 0]
    ELSE LET min_index == idxmin(Column(df, "Miss Dist.(kilometers)"))
         IN  [exc |-> "none", name |-> df.rows[min_index]["Name"]]

\* Series.value_counts(): the distinct values in order of first occurrence,
\* each with its number of occurrences, then sorted by descending count
\* with equal counts left in that order.
Occurrences(s, v) == Cardinality({i \in 1..Len(s) : s[i] = v})
FirstOccurrences(s) ==
    LET firsts == {i \in 1..Len(s) : \A j \in 1..(i - 1) : s[j] # s[i]}
        RECURSIVE Build(_)
        Build(i) == IF i > Len(s) THEN <<>>
                    ELSE IF i \in firsts
                    THEN <<[key |-> s[i], count |-> Occurrences(s, s[i])]>> \o Build(i + 1)
                    ELSE Build(i + 1)
    IN  Build(1)

RECURSIVE InsertByCount(_, _)
InsertByCount(sorted, e) ==
    IF sorted = <<>> THEN <<e>>
    ELSE IF Head(sorted).count >= e.count
    THEN <<Head(sorted)>> \o InsertByCount(Tail(sorted), e)
    ELSE <<e>> \o sorted

RECURSIVE SortByCountDescending(_)
SortByCountDescending(s) ==
    IF s = <<>> THEN <<>>
    ELSE InsertByCount(SortByCountDescending(SubSeq(s, 1, Len(s) - 1)), s[Len(s)])

\* value_counts with sort=False.
value_counts_unsorted(s) == FirstOccurrences(s)

value_counts(s) == SortByCountDescending(FirstOccurrences(s))

common_orbit(df) == value_counts(Column(df, "Orbit ID"))

\* Series.mean() as the exact fraction num/den (NaN for an empty column:
\* den = 0, and every comparison with NaN is False).
RECURSIVE SumSeq(_)
SumSeq(s) == IF s = <<>> THEN 0 ELSE Head(s) + SumSeq(Tail(s))
mean(s) == [num |-> SumSeq(s), den |-> Len(s)]
GreaterThan(v, m) == m.den > 0 /\ v * m.den > m.num

\* min_max_diameter reading the (max) column its docstring speaks of.
min_max_diameter_of_max_column(df) ==
    LET mean_val == mean(Column(df, "Est Dia in KM(max)"))
    IN  Len(SelectSeq(df.rows, LAMBDA r : GreaterThan(r["Est Dia in KM(max)"], mean_val)))

min_max_diameter(df) ==
    LET mean_val == mean(Column(df, "Est Dia in KM(min)"))
    IN  Len(SelectSeq(df.rows, LAMBDA r : GreaterThan(r["Est Dia in KM(min)"], mean_val)))

(***************************************************************************)
(* Stage 1: load_data.  read is what pd.read_csv(filename) does in this    *)
(* run: it returns a table (exc = "none") or raises the exception exc.     *)
(* The except clauses are tried in order; the first whose class the        *)
(* exception is an instance of prints its message and the function falls   *)
(* through to `return None`.  The last message embeds the exception.       *)
(***************************************************************************)
ExceptionBase ==
    ("FileNotFoundError" :> "OSError") @@ ("PermissionError" :> "OSError") @@
    ("OSError" :> "Exception") @@
    ("EmptyDataError" :> "ValueError") @@ ("ParserError" :> "ValueError") @@
    ("UnicodeDecodeError" :> "ValueError") @@ ("ValueError" :> "Exception") @@
    ("MemoryError" :> "Exception") @@ ("Exception" :> "BaseException")

RECURSIVE IsInstance(_, _)
IsInstance(e, cls) ==
    \/ e = cls
    \/ e \in DOMAIN ExceptionBase /\ IsInstance(ExceptionBase[e], cls)

\* The except clauses without the final `except Exception`.
ExceptClauses_no_catch_all ==
    << [catches |-> "FileNotFoundError", prints |-> "Error: The file was not found."],
       [catches |-> "EmptyDataError", prints |-> "Error: The file is empty."],
       [catches |-> "ParserError",
        prints |-> "Error: Failed to parse the file. Please check its format."] >>

ExceptClauses ==
    << [catches |-> "FileNotFoundError", prints |-> "Error: The file was not found."],
       [catches |-> "EmptyDataError", prints |-> "Error: The file is empty."],
       [catches |-> "ParserError",
        prints |-> "Error: Failed to parse the file. Please check its format."],
       [catches |-> "Exception", prints |-> "Error: An unexpected error occurred - "] >>

Printed(text, detail) == [kind |-> "print", text |-> text, detail |-> detail]

load_data(filename, read) ==
    IF read.exc = "none"
    THEN [exc |-> "none", ret |-> read.table, printed |-> <<>>]
    ELSE LET matching == {i \in 1..Len(ExceptClauses) :
                              IsInstance(read.exc, ExceptClauses[i].catches)}
         IN  IF matching = {}
             THEN [exc |-> read.exc, ret |-> NoneVal, printed |-> <<>>]
             ELSE LET clause == ExceptClauses[CHOOSE i \in matching :
                                                  \A j \in matching : i <= j]
                  IN  [exc |-> "none", ret |-> NoneVal,
                       printed |-> <<Printed(clause.prints,
                                             IF clause.catches = "Exception"
                                             THEN read.exc ELSE "")>>]

(***************************************************************************)
(* Stages 9-12: the chart producers.  Each result is [exc, fig]: the       *)
(* exception raised before plt.show() ("none" if none) and the figure that *)
(* plt.show() displays.                                                    *)
(***************************************************************************)
NoFig == [chart |-> "none"]

\* Lines 246-271.  avg2 holds twice the per-row average.  With at most 100
\* distinct orbits tick_step is (max - min) / 14; it is zero (or NaN for no
\* rows) when the averages do not differ, and np.arange rejects that step.
plt_hist_diameter_improved(df) ==
    LET avg2 == MapSeq(df.rows,
                       LAMBDA r : r["Est Dia in KM(min)"] + r["Est Dia in KM(max)"])
        orbit_count == Cardinality(Range(Column(df, "Orbit ID")))
        flat == \A i, j \in 1..Len(avg2) : avg2[i] = avg2[j]
    IN  IF orbit_count <= OrbitTickLimit /\ flat
        THEN [exc |-> "ValueError", fig |-> NoFig]
        ELSE [exc |-> "none", fig |-> [chart |-> "diameter histogram", data |-> avg2]]

\* Lines 286-295.
plt_hist_common_orbit(df) ==
    [exc |-> "none",
     fig |-> [chart |-> "orbit-intersection histogram",
              data |-> Column(df, "Minimum Orbit Intersection")]]

\* plt.pie(x, labels, colors, explode): wedge i takes x[i], labels[i],
\* explode[i] and the i-th colour of the cycled colour list.
pie(x, labels, colors, explode) ==
    [i \in 1..Len(x) |->
        [size |-> x[i], label |-> labels[i], explode |-> explode[i],
         color |-> colors[((i - 1) % Len(colors)) + 1]]]

\* Lines 309-327.
plt_pie_hazard(df) ==
    LET counts == value_counts(Column(df, "Hazardous"))
        labels == MapSeq(counts, LAMBDA c : IF c.key = 1 THEN "Hazardous"
                                            ELSE "Non-Hazardous")
        colors == <<"red", "green">>
        explode == MapSeq(labels, LAMBDA l : IF l = "Hazardous" THEN "0.1" ELSE "0")
    IN  [exc |-> "none",
         fig |-> [chart |-> "hazard pie chart",
                  wedges |-> pie(MapSeq(counts, LAMBDA c : c.count),
                                 labels, colors, explode)]]

\* Lines 351-362.  np is the module whose arange line 267 calls (NumPy); it
\* has no attribute linregress, so line 353 raises before anything is drawn.
plt_linear_motion_magnitude(df) == [exc |-> "AttributeError", fig |-> NoFig]

(***************************************************************************)
(* The inputs.  Row i of every table starts from BaseRow(i); a family of   *)
(* tables then varies the column its operation reads.                      *)
(***************************************************************************)
Date_1999_03_01 == <<"1", "9", "9", "9", "-", "0", "3", "-", "0", "1">>
Date_2000_01_01 == <<"2", "0", "0", "0", "-", "0", "1", "-", "0", "1">>
Date_2015_12_31 == <<"2", "0", "1", "5", "-", "1", "2", "-", "3", "1">>
Date_two_parts == <<"2", "0", "0", "1", "-", "0", "5">>
Date_four_parts == <<"2", "0", "0", "1", "-", "0", "5", "-", "0", "6", "-", "0", "7">>
Date_letter_year == <<"2", "0", "x", "1", "-", "0", "5", "-", "0", "6">>
Date_empty_year == <<"-", "2", "0", "0", "1", "-", "0", "5">>
Date_plus_year == <<"+", "2", "0", "0", "1", "-", "0", "5", "-", "0", "6">>
Date_empty == <<>>
Dates ==
    {Date_1999_03_01,
     Date_2000_01_01,
     Date_2015_12_31,
     Date_two_parts,
     Date_four_parts,
     Date_letter_year,
     Date_empty_year,
     Date_plus_year,
     Date_empty}
OrbitIds == {5, 7, 9}
DiameterValues == 1..4

BaseRow(i) ==
    [c \in Range(ProjectionColumns) |->
        CASE c = "Name" -> 3000 + i
          [] c = "Close Approach Date" -> Date_2000_01_01
          [] c = "Absolute Magnitude" -> 15 + ((i * 3) % 5)
          [] c = "Miss Dist.(kilometers)" -> 100 * (1 + ((i * 2) % 5))
          [] c = "Orbit ID" -> 5
          [] c = "Est Dia in KM(min)" -> i
          [] c = "Est Dia in KM(max)" -> i + 4
          [] c = "Minimum Orbit Intersection" -> i
          [] c = "Miles per hour" -> 1000 * i
          [] c = "Hazardous" -> i % 2
          [] c = "Orbiting Body" -> "Earth"
          [] c = "Neo Reference ID" -> 3000 + i
          [] c = "Equinox" -> "J2000"]

SeqsUpTo(S, n) == UNION {[1..k -> S] : k \in 0..n}

\* The table whose column c holds vals, every other column as in BaseRow.
Vary(c, vals) ==
    DataFrame(ProjectionColumns,
              [i \in 1..Len(vals) |-> [BaseRow(i) EXCEPT ![c] = vals[i]]])

DateTables == {Vary("Close Approach Date", v) : v \in SeqsUpTo(Dates, MaxDateRows)}
OrbitTables == {Vary("Orbit ID", v) : v \in SeqsUpTo(OrbitIds, MaxOrbitRows)}
HazTables == {Vary("Hazardous", v) : v \in SeqsUpTo({0, 1}, MaxHazRows) \ {<<>>}}

\* Minimum diameters vary freely; the maximum diameters are all 9, or fall
\* as the minimum rises.
DiaTables ==
    {DataFrame(ProjectionColumns,
               [i \in 1..Len(v) |->
                   [BaseRow(i) EXCEPT !["Est Dia in KM(min)"] = v[i],
                                      !["Est Dia in KM(max)"] =
                                          IF flatMax THEN 9 ELSE 10 - v[i]]]) :
        v \in SeqsUpTo(DiameterValues, MaxDiaRows), flatMax \in BOOLEAN}

\* Tables with any subset of the three auxiliary columns, placed after,
\* before or (in reverse) among the other columns; one layout has no date
\* column.
ColumnLayouts(aux) ==
    LET has(c) == IF c \in aux THEN <<c>> ELSE <<>>
        fwd == has("Orbiting Body") \o has("Neo Reference ID") \o has("Equinox")
    IN  { BaseColumns \o fwd,
          fwd \o BaseColumns,
          has("Equinox") \o SubSeq(BaseColumns, 1, 4) \o has("Neo Reference ID")
              \o SubSeq(BaseColumns, 5, 10) \o has("Orbiting Body"),
          <<"Name", "Orbit ID">> \o fwd }

ColumnTables ==
    {DataFrame(cols, [i \in 1..n |-> Restrict(BaseRow(i), Range(cols))]) :
        cols \in UNION {ColumnLayouts(aux) : aux \in SUBSET Range(AuxColumns)},
        n \in 0..MaxColRows}

ReadFailures ==
    {"FileNotFoundError", "EmptyDataError", "ParserError",
     "PermissionError", "UnicodeDecodeError", "MemoryError"}
ReadOutcomes ==
    {[exc |-> "none", table |-> t] : t \in ColumnTables}
    \cup {[exc |-> e, table |-> NoneVal] : e \in ReadFailures}
NoRead == [exc |-> "none", table |-> NoneVal]

(***************************************************************************)
(* The state.                                                              *)
(*   entry        where this run entered the module (never changes)        *)
(*   pc           the statement about to execute, "done" or "halt"         *)
(*   df           the table object bound to the caller's variable df       *)
(*   arg0         that table as it was before the first call               *)
(*   ret          what the calls made so far returned                      *)
(*   out          the lines printed and the charts shown and dismissed     *)
(*   fig          the figure the last plt.show() displayed                 *)
(*   err          the exception that ended the run, "none" otherwise       *)
(*   reads        the number of pd.read_csv calls made                     *)
(*   readOutcome  what pd.read_csv does for the file of this run           *)
(* A run enters at line 371 (the module's top level), at line 372 with df  *)
(* bound to what a load returns (a table or None), or at a direct call of  *)
(* one function.  Line 371 itself calls load_data with no argument.        *)
(***************************************************************************)
VARIABLES entry, pc, df, arg0, ret, out, fig, err, reads, readOutcome
vars == <<entry, pc, df, arg0, ret, out, fig, err, reads, readOutcome>>

ScriptTables == DateTables \cup OrbitTables \cup HazTables \cup ColumnTables

EntryTables(e) ==
    CASE e = "L371" -> {NoneVal}
      [] e = "L372" -> ScriptTables \cup {NoneVal}
      [] e = "call_load_data" -> {NoneVal}
      [] e = "call_mask_data" -> DateTables \cup ColumnTables
      [] e = "call_data_details" -> ColumnTables
      [] e = "call_common_orbit" -> OrbitTables
      [] e = "call_min_max_diameter" -> DiaTables
      [] e = "L387" -> HazTables

Entries ==
    {"L371", "L372", "call_load_data", "call_mask_data", "call_data_details",
     "call_common_orbit", "call_min_max_diameter", "L387"}

Init ==
    /\ entry \in Entries
    /\ pc = entry
    /\ df \in EntryTables(entry)
    /\ arg0 = df
    /\ readOutcome \in IF entry = "call_load_data" THEN ReadOutcomes ELSE {NoRead}
    /\ ret = <<>>
    /\ out = <<>>
    /\ fig = NoFig
    /\ err = "none"
    /\ reads = 0

Raise(e) == pc' = "halt" /\ err' = e

(***************************************************************************)
(* Stage 13: the module's top level.                                       *)
(***************************************************************************)
\* Line 371: load_data() passes no filename, a TypeError at the call.
Stage13_Load ==
    /\ pc = "L371"
    /\ Raise("TypeError")
    /\ UNCHANGED <<entry, df, arg0, ret, out, fig, reads, readOutcome>>

\* Line 372: df = mask_data(df).
Stage13_Filter ==
    /\ pc = "L372"
    /\ LET r == mask_data(df)
       IN  IF r.exc # "none"
           THEN Raise(r.exc) /\ df' = r.arg
           ELSE pc' = "L375" /\ df' = r.ret /\ err' = err
    /\ UNCHANGED <<entry, arg0, ret, out, fig, reads, readOutcome>>

\* Lines 375-381: df = df[[...]].
Stage13_Select ==
    /\ pc = "L375"
    /\ LET r == SelectRelevantColumns(df)
       IN  IF r.exc # "none"
           THEN Raise(r.exc) /\ df' = df
           ELSE pc' = "L202" /\ df' = r.ret /\ err' = err
    /\ UNCHANGED <<entry, arg0, ret, out, fig, reads, readOutcome>>

(***************************************************************************)
(* Stage 8: run_analysis_and_print(df), entered from line 384.             *)
(***************************************************************************)
Label(text) == [kind |-> "label", text |-> text]

\* Lines 202-206.
ReportShape ==
    /\ pc = "L202"
    /\ out' = out
              \o << Label("Saving mock_asteroid_data.csv to mock_asteroid_data.csv"),
                    [kind |-> "shape", rows |-> Len(df.rows), cols |-> Len(df.cols)],
                    Label("Table Column Headers:") >>
              \o MapSeq(df.cols, LAMBDA c : [kind |-> "column", title |-> c])
    /\ pc' = "L208"
    /\ UNCHANGED <<entry, df, arg0, ret, fig, err, reads, readOutcome>>

\* Lines 208-211.
ReportMaxMagnitude ==
    /\ pc = "L208"
    /\ LET r == max_absolute_magnitude(df)
       IN  IF r.exc # "none"
           THEN Raise(r.exc) /\ out' = out
           ELSE /\ out' = out \o << Label("Max absolute magnitude:"),
                                    [kind |-> "max_magnitude", name |-> r.name,
                                     val |-> r.val] >>
                /\ pc' = "L213" /\ err' = err
    /\ UNCHANGED <<entry, df, arg0, ret, fig, reads, readOutcome>>

\* Lines 213-215.
ReportClosest ==
    /\ pc = "L213"
    /\ LET r == closest_to_earth(df)
       IN  IF r.exc # "none"
           THEN Raise(r.exc) /\ out' = out
           ELSE /\ out' = out \o << Label("Closest to Earth asteroid:"),
                                    [kind |-> "closest", name |-> r.name] >>
                /\ pc' = "L217" /\ err' = err
    /\ UNCHANGED <<entry, df, arg0, ret, fig, reads, readOutcome>>

\* Lines 217-219.
ReportOrbitFrequency ==
    /\ pc = "L217"
    /\ out' = out \o <<Label("Orbit frequency:")>>
              \o MapSeq(common_orbit(df),
                        LAMBDA e : [kind |-> "orbit", orbit_id |-> e.key,
                                    count |-> e.count])
    /\ pc' = "L221"
    /\ UNCHANGED <<entry, df, arg0, ret, fig, err, reads, readOutcome>>

\* Lines 221-223; the function returns and line 385 is next.
ReportAboveMean ==
    /\ pc = "L221"
    /\ out' = out \o << Label("Asteroids above mean diameter:"),
                        [kind |-> "above_mean", count |-> min_max_diameter(df)] >>
    /\ pc' = "L385"
    /\ UNCHANGED <<entry, df, arg0, ret, fig, err, reads, readOutcome>>

(***************************************************************************)
(* Lines 385-388: the four chart producers.  A producer either raises or   *)
(* reaches its plt.show(), which displays the figure and blocks (pc is the *)
(* line of that plt.show()) until the viewer dismisses it.                 *)
(***************************************************************************)
Show(r, at) ==
    IF r.exc # "none"
    THEN Raise(r.exc) /\ UNCHANGED <<fig, out>>
    ELSE /\ fig' = r.fig
         /\ out' = Append(out, [kind |-> "show", chart |-> r.fig.chart])
         /\ pc' = at /\ err' = err

Render_hist_diameter ==
    /\ pc = "L385"
    /\ Show(plt_hist_diameter_improved(df), "L271")
    /\ UNCHANGED <<entry, df, arg0, ret, reads, readOutcome>>

Render_hist_common_orbit ==
    /\ pc = "L386"
    /\ Show(plt_hist_common_orbit(df), "L295")
    /\ UNCHANGED <<entry, df, arg0, ret, reads, readOutcome>>

Render_pie_hazard ==
    /\ pc = "L387"
    /\ Show(plt_pie_hazard(df), "L327")
    /\ UNCHANGED <<entry, df, arg0, ret, reads, readOutcome>>

Render_linear_motion ==
    /\ pc = "L388"
    /\ Show(plt_linear_motion_magnitude(df), "L362")
    /\ UNCHANGED <<entry, df, arg0, ret, reads, readOutcome>>

\* The viewer closes the window; plt.show() returns, and so does the
\* producer.
Dismiss ==
    /\ pc \in {"L271", "L295", "L327", "L362"}
    /\ out' = Append(out, [kind |-> "dismiss", chart |-> fig.chart])
    /\ pc' = CASE pc = "L271" -> "L386"
               [] pc = "L295" -> "L387"
               [] pc = "L327" -> IF entry = "L387" THEN "done" ELSE "L388"
               [] pc = "L362" -> "done"
    /\ UNCHANGED <<entry, df, arg0, ret, fig, err, reads, readOutcome>>

(***************************************************************************)
(* Direct calls of the functions.                                          *)
(***************************************************************************)
\* load_data(filename): one pd.read_csv call inside the try.
Call_load_data ==
    /\ pc = "call_load_data"
    /\ LET r == load_data("nasa.csv", readOutcome)
       IN  /\ ret' = r.ret
           /\ out' = out \o r.printed
           /\ err' = r.exc
           /\ pc' = IF r.exc = "none" THEN "done" ELSE "halt"
    /\ reads' = reads + 1
    /\ UNCHANGED <<entry, df, arg0, fig, readOutcome>>

\* The caller evaluates mask_data(mask_data(df)) and then mask_data(df):
\* the first call is handed df, the second the frame the first returned
\* (ret[1], which that call changes too), the third df again.
Call_mask_data ==
    /\ pc \in {"call_mask_data", "mask_nested", "mask_again"}
    /\ LET r == mask_data(IF pc = "mask_nested" THEN ret[1] ELSE df)
       IN  IF r.exc # "none"
           THEN Raise(r.exc) /\ UNCHANGED <<df, ret>>
           ELSE /\ err' = err
                /\ pc' = CASE pc = "call_mask_data" -> "mask_nested"
                           [] pc = "mask_nested" -> "mask_again"
                           [] pc = "mask_again" -> "done"
                /\ df' = IF pc = "mask_nested" THEN df ELSE r.arg
                /\ ret' = CASE pc = "call_mask_data" -> <<r.ret>>
                            [] pc = "mask_nested" -> <<r.arg, r.ret>>
                            [] pc = "mask_again" -> Append(ret, r.ret)
    /\ UNCHANGED <<entry, arg0, out, fig, reads, readOutcome>>

Call_data_details ==
    /\ pc = "call_data_details"
    /\ LET r == data_details(df)
       IN  IF r.exc # "none"
           THEN Raise(r.exc) /\ UNCHANGED <<df, ret>>
           ELSE pc' = "done" /\ err' = err /\ df' = r.arg /\ ret' = r.ret
    /\ UNCHANGED <<entry, arg0, out, fig, reads, readOutcome>>

Call_common_orbit ==
    /\ pc = "call_common_orbit"
    /\ ret' = common_orbit(df)
    /\ pc' = "done"
    /\ UNCHANGED <<entry, df, arg0, out, fig, err, reads, readOutcome>>

Call_min_max_diameter ==
    /\ pc = "call_min_max_diameter"
    /\ ret' = min_max_diameter(df)
    /\ pc' = "done"
    /\ UNCHANGED <<entry, df, arg0, out, fig, err, reads, readOutcome>>

Next ==
    \/ Stage13_Load
    \/ Stage13_Filter
    \/ Stage13_Select
    \/ ReportShape
    \/ ReportMaxMagnitude
    \/ ReportClosest
    \/ ReportOrbitFrequency
    \/ ReportAboveMean
    \/ Render_hist_diameter
    \/ Render_hist_common_orbit
    \/ Render_pie_hazard
    \/ Render_linear_motion
    \/ Dismiss
    \/ Call_load_data
    \/ Call_mask_data
    \/ Call_data_details
    \/ Call_common_orbit
    \/ Call_min_max_diameter

Spec == Init /\ [][Next]_vars

(***************************************************************************)
(* The claims.                                                             *)
(***************************************************************************)
IsPrefix(s, t) == Len(s) <= Len(t) /\ SubSeq(t, 1, Len(s)) = s
DateOf(row) == row["Close Approach Date"]
DatesOf(t) == MapSeq(t.rows, DateOf)

\* What the filter's contract says of a date, read off the text of the date:
\* two hyphens, and before the first an optionally signed run of digits
\* whose value is at least 2000.
HyphenCount(s) == Cardinality({i \in 1..Len(s) : s[i] = "-"})
BeforeFirstHyphen(s) ==
    SelectSeq([i \in 1..Len(s) |-> [at |-> i, ch |-> s[i]]],
              LAMBDA e : \A j \in 1..e.at : s[j] # "-")
RECURSIVE PowerOfTen(_)
PowerOfTen(n) == IF n = 0 THEN 1 ELSE 10 * PowerOfTen(n - 1)
DigitsValue(d) ==
    SumSeq([i \in 1..Len(d) |-> DigitVal(d[i].ch) * PowerOfTen(Len(d) - i)])
DateFrom2000(s) ==
    LET first == BeforeFirstHyphen(s)
        digits == IF first # <<>> /\ first[1].ch = "+" THEN Tail(first) ELSE first
    IN  /\ HyphenCount(s) = 2
        /\ digits # <<>>
        /\ \A i \in 1..Len(digits) : IsDigit(digits[i].ch)
        /\ DigitsValue(digits) >= 2000

FailureKind(e) ==
    CASE e = "FileNotFoundError" -> "not found"
      [] e = "EmptyDataError" -> "empty"
      [] e = "ParserError" -> "malformed"
      [] OTHER -> "other"
DiagnosticKind(line) ==
    CASE line.text = "Error: The file was not found." -> "not found"
      [] line.text = "Error: The file is empty." -> "empty"
      [] line.text = "Error: Failed to parse the file. Please check its format."
            -> "malformed"
      [] line.text = "Error: An unexpected error occurred - " -> "other"
      [] OTHER -> "unknown"
ReportingPcs ==
    {"L202", "L208", "L213", "L217", "L221", "L385", "L271", "L386", "L295",
     "L387", "L327", "L388", "L362"}
C4_DataDetailsPrunes ==
    (entry = "call_data_details" /\ pc # "call_data_details")
        => LET present == Range(arg0.cols) \cap Range(AuxColumns)
               remaining == SelectSeq(arg0.cols, LAMBDA c : c \notin Range(AuxColumns))
           IN  /\ pc = "done" /\ err = "none"
               /\ df.cols = remaining
               /\ Len(df.rows) = Len(arg0.rows)
               /\ \A i \in 1..Len(df.rows) :
                      /\ DOMAIN df.rows[i] = (DOMAIN arg0.rows[i]) \ present
                      /\ \A c \in DOMAIN df.rows[i] : df.rows[i][c] = arg0.rows[i][c]
               /\ ret = <<Len(arg0.rows), Len(arg0.cols) - Cardinality(present),
                          remaining>>

C4_Witness ==
    /\ entry = "call_data_details" /\ pc = "done"
    /\ arg0.cols = <<"Equinox">> \o SubSeq(BaseColumns, 1, 4)
                       \o SubSeq(BaseColumns, 5, 10) \o <<"Orbiting Body">>
    /\ Len(arg0.rows) = 2
    /\ ret = <<2, 10, BaseColumns>>

\* C5: mask_data leaves the table it was given as it was (same columns,
\* same rows), returns a table with exactly the input's columns, and the
\* temporary year column is in neither.
C5_MaskLeavesInputUnchanged ==
    (entry = "call_mask_data" /\ pc = "mask_nested")
        => /\ df = arg0
           /\ ret[1].cols = arg0.cols
           /\ "year" \notin Range(df.cols)
           /\ "year" \notin Range(ret[1].cols)

\* C6: mask_data(mask_data(t)) has the same columns and the same rows in
\* the same order as mask_data(t).
C6_MaskIdempotent ==
    (entry = "call_mask_data" /\ pc = "done")
        => /\ ret[2].cols = ret[3].cols
           /\ ret[2].rows = ret[3].rows

C6_Witness ==
    /\ entry = "call_mask_data" /\ pc = "done"
    /\ DatesOf(arg0) = <<Date_2015_12_31, Date_1999_03_01, Date_2000_01_01>>
    /\ DatesOf(ret[2]) = <<Date_2015_12_31, Date_2000_01_01>>
    /\ DatesOf(ret[3]) = <<Date_2015_12_31, Date_2000_01_01>>

\* The first row holding Orbit ID k.
FirstRowWith(ids, k) == CHOOSE i \in 1..Len(ids) :
                            ids[i] = k /\ \A j \in 1..(i - 1) : ids[j] # k
Chart(kind, name) == [kind |-> kind, chart |-> name]
ReporterOutput(t) ==
    << Label("Saving mock_asteroid_data.csv to mock_asteroid_data.csv"),
       [kind |-> "shape", rows |-> Len(t.rows), cols |-> Len(t.cols)],
       Label("Table Column Headers:") >>
    \o MapSeq(t.cols, LAMBDA c : [kind |-> "column", title |-> c])
    \o << Label("Max absolute magnitude:"),
          [kind |-> "max_magnitude", name |-> max_absolute_magnitude(t).name,
           val |-> max_absolute_magnitude(t).val],
          Label("Closest to Earth asteroid:"),
          [kind |-> "closest", name |-> closest_to_earth(t).name],
          Label("Orbit frequency:") >>
    \o MapSeq(common_orbit(t),
              LAMBDA e : [kind |-> "orbit", orbit_id |-> e.key, count |-> e.count])
    \o << Label("Asteroids above mean diameter:"),
          [kind |-> "above_mean", count |-> min_max_diameter(t)] >>
ChartOutput ==
    << Chart("show", "diameter histogram"), Chart("dismiss", "diameter histogram"),
       Chart("show", "orbit-intersection histogram"),
       Chart("dismiss", "orbit-intersection histogram"),
       Chart("show", "hazard pie chart"), Chart("dismiss", "hazard pie chart"),
       Chart("show", "magnitude-vs-speed scatter"),
       Chart("dismiss", "magnitude-vs-speed scatter") >>
C10_HazardousSliceIsRed ==
    (pc = "L327" /\ Range(Column(df, "Hazardous")) = {0, 1})
        => \A i \in 1..Len(fig.wedges) :
               LET w == fig.wedges[i]
               IN  /\ w.label = "Hazardous" => w.color = "red" /\ w.explode = "0.1"
                   /\ w.label = "Non-Hazardous" => w.color = "green" /\ w.explode = "0"

====
